---- MODULE Spec2Model ----
(***************************************************************************)
(* A model of the Japanese_vocab pipeline:                                 *)
(*   convert_kana_entries.py : build_pools, generate_all_questions         *)
(*   process_mimikara_n3.py  : run_generation, read_level_from_txt, main   *)
(*                                                                         *)
(* A Python str is a sequence of one-character strings, so that str.strip  *)
(* is computed and not assumed.  An entry is a triple <<kanji, kana,       *)
(* meaning>> of such strings.  The random source is a generator with an    *)
(* explicit state: every draw is a function of the state and advances it.  *)
(***************************************************************************)
EXTENDS Integers, Sequences, FiniteSets, TLC

VARIABLES
    \* ---- generate_all_questions / run_generation ----
    entries,        \* the entry list handed to build_pools / generate_all_questions
    kanji_pool,     \* the three pools handed to generate_all_questions
    kana_pool,
    meaning_pool,
    min_options,    \* the min_options parameter
    seed,           \* run_generation's seed argument (None or Some(n))
    rng,            \* state of the random generator in use
    pc,             \* position in run_generation / generate_all_questions
    idx,            \* the for-loop's 1-based entry index
    dir,            \* the next of the six direction blocks of the loop body
    questions,      \* the questions list
    skipped,        \* the skipped counter
    run,            \* how many times the program was started on these inputs
    prev,           \* result returned by the previous run
    \* ---- main ----
    args,           \* parsed command line
    env,            \* the files main finds
    mpc,            \* position in main
    raw_entries,    \* what parse_raw_file returned
    fixed_file,     \* the fixed file written by write_fixed_file (None: not there)
    exit_code,      \* process exit status (None while running)
    reported,       \* messages printed, in order
    db              \* the SQLite file

gvars == <<entries, kanji_pool, kana_pool, meaning_pool, min_options, seed, rng,
           pc, idx, dir, questions, skipped, run, prev>>
mvars == <<args, env, mpc, raw_entries, fixed_file, exit_code, reported, db>>
vars == <<gvars, mvars>>

(***************************************************************************)
(* Bounds of the model.                                                    *)
(***************************************************************************)
MaxEntries == 4
MaxAnyEntries == 1
MaxSeed == 1
MaxRaw == 4
MaxRawLines == 2

(***************************************************************************)
(* Python values.                                                          *)
(***************************************************************************)
\* Optional[T]: None is the empty tuple, a value v is <<v>>
None == <<>>
Some(v) == <<v>>
EmptyStr == <<>>
Str(c) == <<c>>
SP == " "

IsSpace(c) == c = SP

RECURSIVE LStrip(_)
LStrip(s) ==
    IF s = <<>> THEN s
    ELSE IF IsSpace(Head(s)) THEN LStrip(Tail(s)) ELSE s

RECURSIVE RStrip(_)
RStrip(s) ==
    IF s = <<>> THEN s
    ELSE IF IsSpace(s[Len(s)]) THEN RStrip(SubSeq(s, 1, Len(s) - 1)) ELSE s

\* str.strip()
Strip(s) == RStrip(LStrip(s))

\* truthiness of a str
Truthy(s) == s # <<>>

\* list membership and list.index (0-based position of the first occurrence)
InSeq(x, s) == \E i \in 1..Len(s) : s[i] = x

IndexOf(s, x) == (CHOOSE i \in 1..Len(s) : s[i] = x /\ \A j \in 1..(i - 1) : s[j] # x) - 1

RemoveAt(s, i) == SubSeq(s, 1, i - 1) \o SubSeq(s, i + 1, Len(s))

RECURSIVE Filter(_, _)
\* [p for p in s if p != x]
Filter(s, x) ==
    IF s = <<>> THEN <<>>
    ELSE IF Head(s) # x THEN <<Head(s)>> \o Filter(Tail(s), x) ELSE Filter(Tail(s), x)

RECURSIVE Dedup(_, _)
\* list(dict.fromkeys(s)): first occurrences, in order
Dedup(s, seen) ==
    IF s = <<>> THEN <<>>
    ELSE IF Head(s) \in seen THEN Dedup(Tail(s), seen)
         ELSE <<Head(s)>> \o Dedup(Tail(s), seen \cup {Head(s)})

\* [k for k in dict.fromkeys(pool) if k]
UniquePool(pool) == Filter(Dedup(pool, {}), EmptyStr)

(***************************************************************************)
(* The random source (random.Random / the random module).  Its state is a  *)
(* number; a draw below n reads the state and the state then advances.     *)
(***************************************************************************)
RngStates == 0..26

NextRng(r) == (5 * r + 4) % 27

RandBelow(r, n) == r % n

RECURSIVE Advance(_, _)
Advance(r, k) == IF k = 0 THEN r ELSE Advance(NextRng(r), k - 1)

\* a seeding that leaves the generator as it was
SeedRngIgnored(s, current) == current

\* random.seed(seed): the state becomes a function of the seed alone
SeedRng(s, current) == s % 27

RECURSIVE Sample(_, _, _)
\* rng.sample(population, k): k picks without replacement, in pick order
Sample(population, k, r) ==
    IF k = 0 THEN <<>>
    ELSE LET i == RandBelow(r, Len(population)) + 1
         IN  <<population[i]>> \o Sample(RemoveAt(population, i), k - 1, NextRng(r))

\* rng.shuffle(x): a permutation of x chosen by the generator
Shuffle(x, r) == Sample(x, Len(x), r)

(***************************************************************************)
(* build_pools                                                             *)
(***************************************************************************)
RECURSIVE PoolOfDuplicates(_, _, _)
\* a pool built without the seen set: non-empty values, repeats kept
PoolOfDuplicates(es, f, seen) ==
    IF es = <<>> THEN <<>>
    ELSE LET v == Head(es)[f]
         IN  IF Truthy(v)
             THEN <<v>> \o PoolOfDuplicates(Tail(es), f, seen \cup {v})
             ELSE PoolOfDuplicates(Tail(es), f, seen)

RECURSIVE PoolOf(_, _, _)
\* one pool of build_pools: field f of each entry, kept when non-empty and unseen
PoolOf(es, f, seen) ==
    IF es = <<>> THEN <<>>
    ELSE LET v == Head(es)[f]
         IN  IF Truthy(v) /\ v \notin seen
             THEN <<v>> \o PoolOf(Tail(es), f, seen \cup {v})
             ELSE PoolOf(Tail(es), f, seen)

build_pools(es) == <<PoolOf(es, 1, {}), PoolOf(es, 2, {}), PoolOf(es, 3, {})>>

(***************************************************************************)
(* generate_all_questions                                                  *)
(***************************************************************************)
DefaultMinOptions == 4
Need == 3

\* the fields of an entry and the six direction blocks, in the order of the code
KANJI == 1
KANA == 2
MEANING == 3

\* the tags with the two kana blocks in the other order
QTypeKanaBlocksSwapped(d) ==
    CASE d = 1 -> "kanji_to_hiragana"
      [] d = 2 -> "kanji_to_meaning"
      [] d = 3 -> "kana_to_kanji"
      [] d = 4 -> "kana_to_meaning"
      [] d = 5 -> "meaning_to_kanji"
      [] d = 6 -> "meaning_to_kana"

\* the q_type tag of the d-th direction block of the loop body
QType(d) ==
    CASE d = 1 -> "kanji_to_hiragana"
      [] d = 2 -> "kanji_to_meaning"
      [] d = 3 -> "kana_to_meaning"
      [] d = 4 -> "kana_to_kanji"
      [] d = 5 -> "meaning_to_kanji"
      [] d = 6 -> "meaning_to_kana"

SourceField(d) ==
    CASE d \in {1, 2} -> KANJI
      [] d \in {3, 4} -> KANA
      [] d \in {5, 6} -> MEANING

TargetField(d) ==
    CASE d \in {4, 5} -> KANJI
      [] d \in {1, 6} -> KANA
      [] d \in {2, 3} -> MEANING

\* the field taken as it is in the entry
NormalizedValUntrimmed(e, f) == e[f]

\* kanji_val, kana_val, meaning_val of the loop body
NormalizedVal(e, f) == Strip(e[f])

\* the prepared pool of the source field's type
PoolOfSourceType(d, kp, ap, mp) ==
    CASE SourceField(d) = KANJI -> UniquePool(kp)
      [] SourceField(d) = KANA -> UniquePool(ap)
      [] SourceField(d) = MEANING -> UniquePool(mp)

\* the pool a direction samples from, as prepared at the top of the function
TargetPool(d, kp, ap, mp) ==
    CASE TargetField(d) = KANJI -> UniquePool(kp)
      [] TargetField(d) = KANA -> UniquePool(ap)
      [] TargetField(d) = MEANING -> UniquePool(mp)

\* candidates that keep the correct value
CandidatesWithCorrect(pool, correct) == pool

\* candidates of sample_distractors: [p for p in pool if p != correct]
Candidates(pool, correct) == Filter(pool, correct)

\* an insufficiency test that is off by one
InsufficientOffByOne(candidates, need) == Len(candidates) <= need

\* the insufficiency test of sample_distractors: len(candidates) < need
Insufficient(candidates, need) == Len(candidates) < need

\* sample_distractors(pool, correct, need): None or the sampled list
sample_distractors(pool, correct, need, r) ==
    LET candidates == Candidates(pool, correct)
    IN  IF Insufficient(candidates, need) THEN None
        ELSE Some(Sample(candidates, need, r))

\* a guard that looks at the source value only
AttemptedSourceOnly(src, tgt) == Truthy(src)

\* the guard of a direction block: `if <source>_val and <target>_val`
Attempted(src, tgt) == Truthy(src) /\ Truthy(tgt)

\* the position the correct value had before the shuffle
CorrectIndexBeforeShuffle(opts, value) == Len(opts) - 1

\* opts.index(correct_value), taken after the shuffle
CorrectIndex(opts, value) == IndexOf(opts, value)

\* a skip that is not counted
CountSkipDropped(n) == n

\* skipped += 1
CountSkip(n) == n + 1

\* make_question: the dict appended to questions
make_question(entry_index, q_type, prompt, correct_value, options, correct_index) ==
    [ entry_index |-> entry_index,
      q_type |-> q_type,
      prompt |-> prompt,
      text |-> <<q_type, prompt>>,
      options |-> options,
      correct_answer |-> correct_value,
      correct_index |-> correct_index ]

\* one direction block of the loop body: g holds questions, skipped and the
\* generator state before the block, the result holds them after it
direction_block(g, e, i, d, kp, ap, mp) ==
    LET src == NormalizedVal(e, SourceField(d))
        tgt == NormalizedVal(e, TargetField(d))
    IN  IF ~Attempted(src, tgt) THEN g
        ELSE LET distractors == sample_distractors(TargetPool(d, kp, ap, mp), tgt, Need, g.rng)
             IN  IF distractors = None
                 THEN [g EXCEPT !.skipped = CountSkip(g.skipped)]
                 ELSE LET opts == Shuffle(distractors[1] \o <<tgt>>, Advance(g.rng, Need))
                      IN  [ questions |-> Append(g.questions,
                                make_question(i, QType(d), src, tgt, opts,
                                              CorrectIndex(opts, tgt))),
                            skipped |-> g.skipped,
                            rng |-> Advance(g.rng, Need + Len(opts)) ]

\* the body of the loop for entry e at index i: the six direction blocks run
\* one after the other in the order of the code; g1..g6 are the states they
\* leave, the last one is the state after the body
loop_body(g, e, i, kp, ap, mp) ==
    LET g1 == direction_block(g, e, i, 1, kp, ap, mp)
        g2 == direction_block(g1, e, i, 2, kp, ap, mp)
        g3 == direction_block(g2, e, i, 3, kp, ap, mp)
        g4 == direction_block(g3, e, i, 4, kp, ap, mp)
        g5 == direction_block(g4, e, i, 5, kp, ap, mp)
        g6 == direction_block(g5, e, i, 6, kp, ap, mp)
    IN  <<g1, g2, g3, g4, g5, g6>>[6]

RECURSIVE generate_upto(_, _, _, _, _, _)
\* the loop `for idx, e in enumerate(entries, start=1)` after n entries
generate_upto(es, n, kp, ap, mp, r) ==
    IF n = 0 THEN [questions |-> <<>>, skipped |-> 0, rng |-> r]
    ELSE loop_body(generate_upto(es, n - 1, kp, ap, mp, r), es[n], n, kp, ap, mp)

\* generate_all_questions(entries, kanji_pool, kana_pool, meaning_pool), the
\* generator being in state r
generate_all_questions(es, kp, ap, mp, r) ==
    generate_upto(es, Len(es), kp, ap, mp, r)

(***************************************************************************)
(* The SQLite file: create_db, insert_entries, insert_questions.           *)
(***************************************************************************)
\* no file at db_path
NoDb ==
    [ exists |-> FALSE, tables |-> FALSE, entries |-> <<>>, questions |-> <<>>,
      entry_seq |-> 0, question_seq |-> 0, n_level |-> "absent" ]

\* create_db without the unlink: the file found is kept whatever force is
create_db_keeps(d, force) ==
    [d EXCEPT !.exists = TRUE, !.tables = TRUE,
              !.n_level = IF d.n_level = "absent" THEN "empty" ELSE d.n_level]

\* create_db(db_path, force): unlink when forced, then CREATE TABLE IF NOT EXISTS
create_db(d, force) ==
    LET base == IF force /\ d.exists THEN NoDb ELSE d
    IN  [base EXCEPT !.exists = TRUE, !.tables = TRUE,
                     !.n_level = IF base.n_level = "absent" THEN "empty" ELSE base.n_level]

\* the row ids insert_entries returns: AUTOINCREMENT continues the sequence
inserted_ids(d, es) == [i \in 1..Len(es) |-> d.entry_seq + i]

\* insert_entries(conn, entries), committed
insert_entries(d, es) ==
    [d EXCEPT !.entries = d.entries \o
                  [i \in 1..Len(es) |->
                      [ id |-> d.entry_seq + i, list_index |-> i, entry |-> es[i],
                        level |-> None, chapter |-> None ]],
              !.entry_seq = d.entry_seq + Len(es)]

\* the 1-based position of the entry taken for its row id
entry_id_is_position(q, entry_db_ids) == Some(q.entry_index)

\* the entry_id insert_questions stores for a question
entry_id_of(q, entry_db_ids) ==
    IF 1 <= q.entry_index /\ q.entry_index <= Len(entry_db_ids)
    THEN Some(entry_db_ids[q.entry_index]) ELSE None

\* insert_questions(conn, questions, entry_db_ids), committed
insert_questions(d, qs, entry_db_ids) ==
    [d EXCEPT !.questions = d.questions \o
                  [k \in 1..Len(qs) |->
                      [ id |-> d.question_seq + k,
                        entry_id |-> entry_id_of(qs[k], entry_db_ids),
                        q |-> qs[k], level |-> None, chapter |-> None ]],
              !.question_seq = d.question_seq + Len(qs)]

(***************************************************************************)
(* The chapter-annotated file and apply_level_and_chapters_from_txt.       *)
(* A file is a sequence of lines; a line is blank, a text, an opening or   *)
(* closing brace, or an entry line "N. ...".                               *)
(***************************************************************************)
TextLine(t) == [kind |-> "text", text |-> t, num |-> 0]
BlankLine == TextLine("")
OpenLine == [kind |-> "open", text |-> "{", num |-> 0]
CloseLine == [kind |-> "close", text |-> "}", num |-> 0]
EntryLine(n) == [kind |-> "entry", text |-> "N.", num |-> n]

\* str.lower() on the header tokens used here
Lower(t) ==
    CASE t = "N5" -> "n5" [] t = "N4" -> "n4" [] t = "N3" -> "n3"
      [] t = "N2" -> "n2" [] t = "N1" -> "n1" [] OTHER -> t

LevelTokens == {"n5", "n4", "n3", "n2", "n1"}

level_map(t) ==
    CASE t = "n5" -> 1 [] t = "n4" -> 2 [] t = "n3" -> 3 [] t = "n2" -> 4 [] t = "n1" -> 5

RECURSIVE read_level_from_lines(_)
\* the loop of read_level_from_txt: None stands for the ValueError raised
read_level_from_lines(lines) ==
    IF lines = <<>> THEN None
    ELSE LET line == Lower(Head(lines).text)
         IN  IF line = "" THEN read_level_from_lines(Tail(lines))
             ELSE IF line \in LevelTokens THEN Some(level_map(line))
             ELSE None

\* read_level_from_txt(path): the level id, or the exception raised
read_level_from_txt(file) ==
    IF file = None THEN [ok |-> FALSE, err |-> "FileNotFoundError", level |-> 0]
    ELSE LET r == read_level_from_lines(file[1])
         IN  IF r = None THEN [ok |-> FALSE, err |-> "ValueError", level |-> 0]
             ELSE [ok |-> TRUE, err |-> "", level |-> r[1]]

\* position of the first line of the given kind at or after position i (0: none)
FirstOfKind(lines, kind, i) ==
    IF \E j \in i..Len(lines) : lines[j].kind = kind
    THEN CHOOSE j \in i..Len(lines) :
            lines[j].kind = kind /\ \A k \in i..(j - 1) : lines[k].kind # kind
    ELSE 0

RECURSIVE brace_blocks(_, _)
\* re.findall(r"\{([^}]*)\}", text): the line ranges between a brace and the
\* first closing brace after it, left to right
brace_blocks(lines, i) ==
    LET o == FirstOfKind(lines, "open", i)
        c == IF o = 0 THEN 0 ELSE FirstOfKind(lines, "close", o + 1)
    IN  IF o = 0 \/ c = 0 THEN <<>>
        ELSE <<SubSeq(lines, o + 1, c - 1)>> \o brace_blocks(lines, c + 1)

\* the blocks parse_chapters_from_fixed loops over
chapter_blocks(lines) ==
    IF brace_blocks(lines, 1) = <<>> THEN <<lines>> ELSE brace_blocks(lines, 1)

\* the numbers of the entry lines of a block
BlockNumbers(block) == { block[j].num : j \in { k \in 1..Len(block) : block[k].kind = "entry" } }

\* parse_chapters_from_fixed: entry number -> chapter, a later block winning
parse_chapters_from_fixed(lines) ==
    LET blocks == chapter_blocks(lines)
        nums == UNION { BlockNumbers(blocks[c]) : c \in 1..Len(blocks) }
    IN  [ n \in nums |->
            CHOOSE c \in 1..Len(blocks) :
                /\ n \in BlockNumbers(blocks[c])
                /\ \A c2 \in (c + 1)..Len(blocks) : n \notin BlockNumbers(blocks[c2]) ]

\* the chapter the final UPDATE copies into a question row
chapter_of_entry(rows, entry_id) ==
    IF entry_id # None /\ \E j \in 1..Len(rows) : rows[j].id = entry_id[1]
    THEN (CHOOSE r \in { rows[j] : j \in 1..Len(rows) } : r.id = entry_id[1]).chapter
    ELSE None

\* apply_level_and_chapters_from_txt(db_path, fixed_path): the exception
\* raised, if any, and the file it leaves
apply_level_and_chapters_from_txt(d, file) ==
    LET lv == read_level_from_txt(file)
    IN  IF ~lv.ok THEN [ok |-> FALSE, err |-> lv.err, db |-> d]
        ELSE IF ~d.tables
        THEN \* sqlite3.connect creates the file; ALTER TABLE entries then fails
             [ok |-> FALSE, err |-> "OperationalError",
              db |-> [d EXCEPT !.exists = TRUE, !.n_level = "empty"]]
        ELSE LET m == parse_chapters_from_fixed(file[1])
                 es == [ j \in 1..Len(d.entries) |->
                           [d.entries[j] EXCEPT
                               !.level = Some(lv.level),
                               !.chapter = IF d.entries[j].id \in DOMAIN m
                                           THEN Some(m[d.entries[j].id])
                                           ELSE d.entries[j].chapter] ]
                 qs == [ k \in 1..Len(d.questions) |->
                           [d.questions[k] EXCEPT
                               !.level = Some(lv.level),
                               !.chapter = chapter_of_entry(es, d.questions[k].entry_id)] ]
             IN  [ok |-> TRUE, err |-> "",
                  db |-> [d EXCEPT !.entries = es, !.questions = qs, !.n_level = "filled"]]

(***************************************************************************)
(* The raw file and the fixed file as text: parse_raw_file,                *)
(* write_fixed_file and parse_fixed_file character by character.  A line   *)
(* is a str without its newline; a file is a sequence of lines.            *)
(***************************************************************************)
COMMA == ","

\* "," in line
HasComma(s) == \E j \in 1..Len(s) : s[j] = COMMA

RECURSIVE RStripCommas(_)
\* line.rstrip(",")
RStripCommas(s) ==
    IF s # <<>> /\ s[Len(s)] = COMMA THEN RStripCommas(SubSeq(s, 1, Len(s) - 1)) ELSE s

\* position of the first comma of s, 0 when there is none
FirstComma(s) ==
    IF HasComma(s)
    THEN CHOOSE j \in 1..Len(s) : s[j] = COMMA /\ \A k \in 1..(j - 1) : s[k] # COMMA
    ELSE 0

RECURSIVE Split(_, _)
\* s.split(",", maxsplit)
Split(s, maxsplit) ==
    LET c == FirstComma(s)
    IN  IF maxsplit = 0 \/ c = 0 THEN <<s>>
        ELSE <<SubSeq(s, 1, c - 1)>> \o Split(SubSeq(s, c + 1, Len(s)), maxsplit - 1)

\* [p.strip() for p in s.split(",", 2)]
StrippedParts(s) == LET ps == Split(s, 2) IN [j \in 1..Len(ps) |-> Strip(ps[j])]

\* str.lower() on the letters used in the raw lines here
LowerChar(c) == IF c = "N" THEN "n" ELSE IF c = "A" THEN "a" ELSE c

LowerStr(s) == [j \in 1..Len(s) |-> LowerChar(s[j])]

\* the characters that stand for kana
KanaChars == {"a", "b", "c", "d", "e"}

\* _is_kana_only(s)
is_kana_only(s) ==
    /\ Strip(s) # EmptyStr
    /\ \A j \in 1..Len(Strip(s)) : Strip(s)[j] \in KanaChars \/ IsSpace(Strip(s)[j])

\* a token kept by `if p and p.lower() != "nan"`
KeptToken(p) == p # EmptyStr /\ LowerStr(p) # <<"n", "a", "n">>

\* the loop body of parse_raw_file on one line: None when the line is
\* skipped, otherwise the entry appended
parse_raw_line(raw) ==
    LET line == Strip(raw)
    IN  IF line = EmptyStr \/ ~HasComma(line) THEN None
        ELSE LET parts == SelectSeq(StrippedParts(RStripCommas(line)), KeptToken)
             IN  IF Len(parts) >= 3 THEN Some(<<parts[1], parts[2], parts[3]>>)
                 ELSE IF Len(parts) = 2
                 THEN IF is_kana_only(parts[1])
                      THEN Some(<<EmptyStr, parts[1], parts[2]>>)
                      ELSE Some(<<parts[1], parts[2], EmptyStr>>)
                 ELSE IF Len(parts) = 1
                 THEN IF is_kana_only(parts[1])
                      THEN Some(<<EmptyStr, parts[1], EmptyStr>>)
                      ELSE Some(<<EmptyStr, EmptyStr, parts[1]>>)
                 ELSE None

RECURSIVE parse_raw_text(_)
\* parse_raw_file(path) on the lines of the file
parse_raw_text(lines) ==
    IF lines = <<>> THEN <<>>
    ELSE LET r == parse_raw_line(Head(lines))
         IN  (IF r = None THEN <<>> ELSE <<r[1]>>) \o parse_raw_text(Tail(lines))

DigitChars == <<"0", "1", "2", "3", "4", "5", "6", "7", "8", "9">>

IsDigit(c) == \E j \in 1..Len(DigitChars) : DigitChars[j] = c

RECURSIVE Digits(_)
\* str(i) of the f-string
Digits(i) ==
    IF i < 10 THEN <<DigitChars[i + 1]>>
    ELSE Digits(i \div 10) \o <<DigitChars[(i % 10) + 1]>>

\* the line write_fixed_file writes for entry e at number i:
\* f"{i}.   {kanji_s}, {kana_s}, {meaning_s}"
fixed_line(i, e) ==
    Digits(i) \o <<".", SP, SP, SP>> \o Strip(e[1]) \o <<COMMA, SP>>
        \o Strip(e[2]) \o <<COMMA, SP>> \o Strip(e[3])

\* write_fixed_file(entries, out_path): the lines of the file written
write_fixed_text(es) == [i \in 1..Len(es) |-> fixed_line(i, es[i])]

\* number of leading digits of s
LeadingDigits(s) ==
    IF s = <<>> \/ ~IsDigit(s[1]) THEN 0
    ELSE IF \A j \in 1..Len(s) : IsDigit(s[j]) THEN Len(s)
    ELSE (CHOOSE j \in 1..Len(s) : ~IsDigit(s[j]) /\ \A k \in 1..(j - 1) : IsDigit(s[k])) - 1

\* [p, "", ""] padded to 3 parts
Pad3(ps) == [j \in 1..3 |-> IF j <= Len(ps) THEN ps[j] ELSE EmptyStr]

\* the loop body of parse_fixed_file on one line: None when the line is
\* skipped (empty, or no match of ^\s*(\d+)\.\s*(.*)$)
parse_fixed_line(raw) ==
    LET line == Strip(raw)
        n == LeadingDigits(line)
    IN  IF line = EmptyStr \/ n = 0 \/ n = Len(line) \/ line[n + 1] # "." THEN None
        ELSE LET rest == Strip(SubSeq(line, n + 2, Len(line)))
                 parts == Pad3(StrippedParts(rest))
             IN  Some(<<parts[1], parts[2], parts[3]>>)

RECURSIVE parse_fixed_text(_)
\* parse_fixed_file(path) on the lines of the file
parse_fixed_text(lines) ==
    IF lines = <<>> THEN <<>>
    ELSE LET r == parse_fixed_line(Head(lines))
         IN  (IF r = None THEN <<>> ELSE <<r[1]>>) \o parse_fixed_text(Tail(lines))

(***************************************************************************)
(* write_fixed_file and run_generation.                                    *)
(***************************************************************************)
\* write_fixed_file strips every field; on fields without a comma
\* parse_fixed_file reads the written lines back as these triples
write_fixed_file(es) ==
    [i \in 1..Len(es) |-> <<Strip(es[i][1]), Strip(es[i][2]), Strip(es[i][3])>>]

\* run_generation(fixed_path, db_path, seed, force, ...): the exception
\* raised, if any, and the SQLite file it leaves.  `failure` is the step
\* that raises: the import of convert_kana_entries, create_db, or
\* insert_questions
\* run_generation opening the database first, before the import check and
\* the generation
run_generation_db_first(fixed, d, seed_arg, force, failure, ambient) ==
    LET d0 == create_db(d, force)
    IN  IF failure = "import" THEN [ok |-> FALSE, err |-> "ImportError", db |-> d0]
        ELSE IF fixed = <<>> THEN [ok |-> TRUE, err |-> "", db |-> d0]
        ELSE LET r == IF seed_arg # None THEN SeedRng(seed_arg[1], ambient) ELSE ambient
                 pools == build_pools(fixed)
                 g == generate_all_questions(fixed, pools[1], pools[2], pools[3], r)
                 ids == inserted_ids(d0, fixed)
                 d2 == insert_entries(d0, fixed)
             IN  IF failure = "create_db"
                 THEN [ok |-> FALSE, err |-> "OperationalError", db |-> d]
                 ELSE IF failure = "insert_questions"
                 THEN [ok |-> FALSE, err |-> "OperationalError", db |-> d2]
                 ELSE [ok |-> TRUE, err |-> "",
                       db |-> insert_questions(d2, g.questions, ids)]

run_generation(fixed, d, seed_arg, force, failure, ambient) ==
    IF failure = "import" THEN [ok |-> FALSE, err |-> "ImportError", db |-> d]
    ELSE IF fixed = <<>> THEN [ok |-> TRUE, err |-> "", db |-> d]
    ELSE LET r == IF seed_arg # None THEN SeedRng(seed_arg[1], ambient) ELSE ambient
             pools == build_pools(fixed)
             g == generate_all_questions(fixed, pools[1], pools[2], pools[3], r)
         IN  IF failure = "create_db" THEN [ok |-> FALSE, err |-> "OperationalError", db |-> d]
             ELSE LET d1 == create_db(d, force)
                      ids == inserted_ids(d1, fixed)
                      d2 == insert_entries(d1, fixed)
                  IN  IF failure = "insert_questions"
                      THEN [ok |-> FALSE, err |-> "OperationalError", db |-> d2]
                      ELSE [ok |-> TRUE, err |-> "",
                            db |-> insert_questions(d2, g.questions, ids)]

(***************************************************************************)
(* Exit statuses of main.                                                  *)
(***************************************************************************)
ExitSuccess == 0
ExitParseFailure == 2
\* the empty-input exit reusing the status of the parse stage
ExitEmptySameAsParse == ExitParseFailure
ExitEmptyInput == 1
ExitWriteFailure == 3
ExitGenerationFailure == 4
ExitChaptersFailure == 5

(***************************************************************************)
(* Inputs.                                                                 *)
(***************************************************************************)
\* entries as parse_fixed_file yields them: four full triples and a line with
\* a meaning only; a list may hold the same triple more than once
EntryValues ==
    { <<Str("A"), Str("a"), Str("p")>>,
      <<Str("B"), Str("b"), Str("q")>>,
      <<Str("C"), Str("c"), Str("r")>>,
      <<Str("D"), Str("d"), Str("s")>>,
      <<EmptyStr, EmptyStr, Str("t")>> }

SeqsUpTo(S, n) == UNION { [1..k -> S] : k \in 0..n }

EntryLists == SeqsUpTo(EntryValues, MaxEntries)

Seeds == 0..MaxSeed

SeedArgs == {None} \cup { Some(n) : n \in Seeds }

\* the generator's state when a process starts and nothing has seeded it
AmbientRng == Seeds

\* inputs of a direct call of generate_all_questions: fields with surrounding
\* whitespace, and pools that repeat values, hold the empty string, or hold a
\* value that differs from an entry's field only by whitespace
AnyEntryValues ==
    { <<Str("A"), Str("a"), Str("p")>>,
      <<<<SP, "A">>, <<"a", SP>>, <<SP, "p", SP>>>>,
      <<EmptyStr, Str("a"), <<SP>>>> }

AnyEntryLists == SeqsUpTo(AnyEntryValues, MaxAnyEntries)

PoolChoices(x, y, z, w) ==
    { <<Str(x), Str(y), Str(z), Str(w)>>,
      <<Str(x), Str(y), Str(z)>>,
      <<Str(y), Str(y), EmptyStr, <<SP, x>>, Str(z), Str(x), Str(y), <<x, SP>>>>,
      <<>> }

MinOptionsChoices == { DefaultMinOptions - 1, DefaultMinOptions, DefaultMinOptions + 1 }

(***************************************************************************)
(* convert_kana_entries.__main__ / run_generation: seed, build the pools,  *)
(* generate.                                                               *)
(***************************************************************************)
MainIdle ==
    /\ args = [apply_chapters |-> FALSE, force |-> FALSE, seed |-> None]
    /\ env = [raw |-> None, fixed_writable |-> FALSE, gen_failure |-> "none",
              chapters |-> None]
    /\ mpc = "idle"
    /\ raw_entries = <<>>
    /\ fixed_file = None
    /\ exit_code = None
    /\ reported = <<>>
    /\ db = NoDb

Init ==
    /\ entries \in EntryLists
    /\ kanji_pool = <<>>
    /\ kana_pool = <<>>
    /\ meaning_pool = <<>>
    /\ min_options = DefaultMinOptions
    /\ seed \in SeedArgs
    /\ rng \in AmbientRng
    /\ pc = "seed"
    /\ idx = 1
    /\ dir = 1
    /\ questions = <<>>
    /\ skipped = 0
    /\ run = 1
    /\ prev = None
    /\ MainIdle

\* if seed is not None: random.seed(seed)
SeedStep ==
    /\ pc = "seed"
    /\ rng' = IF seed # None THEN SeedRng(seed[1], rng) ELSE rng
    /\ pc' = "pools"
    /\ UNCHANGED <<entries, kanji_pool, kana_pool, meaning_pool, min_options, seed,
                   idx, dir, questions, skipped, run, prev, mvars>>

\* kanji_pool, kana_pool, meaning_pool = build_pools(entries)
BuildPools ==
    /\ pc = "pools"
    /\ kanji_pool' = build_pools(entries)[1]
    /\ kana_pool' = build_pools(entries)[2]
    /\ meaning_pool' = build_pools(entries)[3]
    /\ pc' = "call"
    /\ UNCHANGED <<entries, min_options, seed, rng, idx, dir, questions, skipped,
                   run, prev, mvars>>

\* entry of generate_all_questions: questions = [], skipped = 0, the loop starts
GenerateEnter ==
    /\ pc = "call"
    /\ questions' = <<>>
    /\ skipped' = 0
    /\ idx' = 1
    /\ dir' = 1
    /\ pc' = "gen"
    /\ UNCHANGED <<entries, kanji_pool, kana_pool, meaning_pool, min_options, seed,
                   rng, run, prev, mvars>>

\* one direction block of the loop body, for the entry at idx
Direction(d) ==
    /\ pc = "gen"
    /\ idx <= Len(entries)
    /\ dir = d
    /\ LET g == direction_block([questions |-> questions, skipped |-> skipped, rng |-> rng],
                                entries[idx], idx, d, kanji_pool, kana_pool, meaning_pool)
       IN  /\ questions' = g.questions
           /\ skipped' = g.skipped
           /\ rng' = g.rng
    /\ IF d = 6 THEN idx' = idx + 1 /\ dir' = 1 ELSE idx' = idx /\ dir' = d + 1
    /\ UNCHANGED <<entries, kanji_pool, kana_pool, meaning_pool, min_options, seed,
                   pc, run, prev, mvars>>

KanjiToHiragana == Direction(1)
KanjiToMeaning == Direction(2)
KanaToMeaning == Direction(3)
KanaToKanji == Direction(4)
MeaningToKanji == Direction(5)
MeaningToKana == Direction(6)

\* return questions, skipped
Return ==
    /\ pc = "gen"
    /\ idx > Len(entries)
    /\ pc' = "done"
    /\ UNCHANGED <<entries, kanji_pool, kana_pool, meaning_pool, min_options, seed,
                   rng, idx, dir, questions, skipped, run, prev, mvars>>

\* a run started with --seed is repeated: the program is started once more on
\* the same file with the same arguments, in a fresh process
RunAgain ==
    /\ pc = "done"
    /\ run = 1
    /\ seed # None
    /\ prev' = Some([questions |-> questions, skipped |-> skipped])
    /\ run' = run + 1
    /\ rng' \in AmbientRng
    /\ kanji_pool' = <<>>
    /\ kana_pool' = <<>>
    /\ meaning_pool' = <<>>
    /\ questions' = <<>>
    /\ skipped' = 0
    /\ idx' = 1
    /\ dir' = 1
    /\ pc' = "seed"
    /\ UNCHANGED <<entries, min_options, seed, mvars>>

Generate ==
    \/ GenerateEnter
    \/ KanjiToHiragana
    \/ KanjiToMeaning
    \/ KanaToMeaning
    \/ KanaToKanji
    \/ MeaningToKanji
    \/ MeaningToKana
    \/ Return

Next ==
    \/ SeedStep
    \/ BuildPools
    \/ Generate

Spec == Init /\ [][Next]_vars

\* the same, with the program run a second time
NextTwoRuns ==
    \/ SeedStep
    \/ BuildPools
    \/ Generate
    \/ RunAgain

SpecTwoRuns == Init /\ [][NextTwoRuns]_vars

\* generate_all_questions called directly, on any entries and pools
InitAnyPools ==
    /\ entries \in AnyEntryLists
    /\ kanji_pool \in PoolChoices("A", "B", "C", "D")
    /\ kana_pool \in PoolChoices("a", "b", "c", "d")
    /\ meaning_pool \in PoolChoices("p", "q", "r", "s")
    /\ min_options \in MinOptionsChoices
    /\ seed = None
    /\ rng \in AmbientRng
    /\ pc = "call"
    /\ idx = 1
    /\ dir = 1
    /\ questions = <<>>
    /\ skipped = 0
    /\ run = 1
    /\ prev = None
    /\ MainIdle

SpecAnyPools == InitAnyPools /\ [][Generate]_vars

(***************************************************************************)
(* main                                                                    *)
(***************************************************************************)
\* the raw vocabulary file, as the entries parse_raw_file reads from it
Vocabulary ==
    << <<Str("A"), Str("a"), Str("p")>>,
       <<Str("B"), Str("b"), Str("q")>>,
       <<Str("C"), Str("c"), Str("r")>>,
       <<Str("D"), Str("d"), Str("s")>>,
       <<EmptyStr, EmptyStr, Str("t")>>,
       <<EmptyStr, Str("e"), Str("p")>> >>

Prefix(s, n) == SubSeq(s, 1, IF n < Len(s) THEN n ELSE Len(s))

\* no file, or a file with the first n entries
RawFiles == {None} \cup { Some(Prefix(Vocabulary, n)) : n \in 0..MaxRaw }

\* no file, an empty file, files with a level header (one after a blank
\* line and in upper case, one without braces), a file that starts with a
\* chapter block, a file whose first line is no level token
ChapterFiles ==
    { None,
      Some(<<>>),
      Some(<<TextLine("n3"), OpenLine, EntryLine(1), EntryLine(2), CloseLine,
             OpenLine, EntryLine(3), CloseLine>>),
      Some(<<BlankLine, TextLine("N4"), OpenLine, EntryLine(2), CloseLine>>),
      Some(<<TextLine("n2"), EntryLine(1), EntryLine(2)>>),
      Some(<<OpenLine, EntryLine(1), CloseLine>>),
      Some(<<TextLine("n6"), OpenLine, EntryLine(1), CloseLine>>) }

\* the file left by an earlier run of the program
EarlierDb ==
    run_generation(write_fixed_file(Prefix(Vocabulary, 4)), NoDb, Some(0), FALSE, "none", 0).db

\* no file, a file without the tables, the file of an earlier run
DbStates == { NoDb, [NoDb EXCEPT !.exists = TRUE], EarlierDb }

GenFailures == {"none", "import", "create_db", "insert_questions"}

InitMain ==
    /\ entries = <<>>
    /\ kanji_pool = <<>>
    /\ kana_pool = <<>>
    /\ meaning_pool = <<>>
    /\ min_options = DefaultMinOptions
    /\ seed = None
    /\ rng \in AmbientRng
    /\ pc = "idle"
    /\ idx = 1
    /\ dir = 1
    /\ questions = <<>>
    /\ skipped = 0
    /\ run = 1
    /\ prev = None
    /\ args \in [apply_chapters : BOOLEAN, force : BOOLEAN, seed : SeedArgs]
    /\ env \in [raw : RawFiles, fixed_writable : BOOLEAN, gen_failure : GenFailures,
                chapters : ChapterFiles]
    /\ mpc = "start"
    /\ raw_entries = <<>>
    /\ fixed_file = None
    /\ exit_code = None
    /\ reported = <<>>
    /\ db \in DbStates

\* sys.exit(code) after printing a message
Exit(code, message, detail) ==
    /\ reported' = Append(reported, <<message, detail>>)
    /\ exit_code' = Some(code)
    /\ mpc' = "exited"

\* if args.apply_chapters: apply, then exit 5 on an exception or return
ApplyChaptersOnly ==
    /\ mpc = "start"
    /\ args.apply_chapters
    /\ LET r == apply_level_and_chapters_from_txt(db, env.chapters)
       IN  /\ db' = r.db
           /\ IF r.ok
              THEN /\ reported' = Append(reported, <<"Chapter information applied successfully.", "">>)
                   /\ exit_code' = Some(ExitSuccess)
                   /\ mpc' = "returned"
              ELSE Exit(ExitChaptersFailure, "Applying chapters failed", r.err)
    /\ UNCHANGED <<gvars, args, env, raw_entries, fixed_file>>

\* entries = parse_raw_file(args.input), exit 2 on an exception
ParseRaw ==
    /\ mpc = "start"
    /\ ~args.apply_chapters
    /\ IF env.raw = None
       THEN /\ Exit(ExitParseFailure, "Failed to parse input file", "FileNotFoundError")
            /\ UNCHANGED raw_entries
       ELSE /\ raw_entries' = env.raw[1]
            /\ mpc' = "check"
            /\ UNCHANGED <<exit_code, reported>>
    /\ UNCHANGED <<gvars, args, env, fixed_file, db>>

\* if not entries: exit 1
CheckEntries ==
    /\ mpc = "check"
    /\ IF raw_entries = <<>>
       THEN Exit(ExitEmptyInput, "No entries were parsed from the input file. Exiting.", "")
       ELSE /\ mpc' = "write"
            /\ UNCHANGED <<exit_code, reported>>
    /\ UNCHANGED <<gvars, args, env, raw_entries, fixed_file, db>>

\* write_fixed_file(entries, args.fixed), exit 3 on an exception
WriteFixed ==
    /\ mpc = "write"
    /\ IF ~env.fixed_writable
       THEN /\ Exit(ExitWriteFailure, "Failed to write fixed file", "OSError")
            /\ UNCHANGED fixed_file
       ELSE /\ fixed_file' = Some(write_fixed_file(raw_entries))
            /\ reported' = Append(reported, <<"Wrote fixed file", "">>)
            /\ mpc' = "generate"
            /\ UNCHANGED exit_code
    /\ UNCHANGED <<gvars, args, env, raw_entries, db>>

\* run_generation(...), exit 4 on an exception
RunGeneration ==
    /\ mpc = "generate"
    /\ LET r == run_generation(fixed_file[1], db, args.seed, args.force,
                               env.gen_failure, rng)
       IN  /\ db' = r.db
           /\ IF r.ok
              THEN /\ mpc' = "auto_apply"
                   /\ UNCHANGED <<exit_code, reported>>
              ELSE Exit(ExitGenerationFailure, "Generation failed", r.err)
    /\ UNCHANGED <<gvars, args, env, raw_entries, fixed_file>>

\* the automatic apply treated like the --apply-chapters mode: status 5 when
\* it raises
ExitAfterAutoApplyStrict(ok) == IF ok THEN ExitSuccess ELSE ExitChaptersFailure

\* the status a run ends with after the automatic apply, failed or not: the
\* except clause prints and main returns
ExitAfterAutoApply(ok) == ExitSuccess

\* the final try block: apply level and chapters, print and go on when it raises
AutoApply ==
    /\ mpc = "auto_apply"
    /\ LET r == apply_level_and_chapters_from_txt(db, env.chapters)
       IN  /\ db' = r.db
           /\ reported' = IF r.ok THEN reported
                          ELSE Append(reported, <<"Skip auto level/chapter apply", r.err>>)
           /\ exit_code' = Some(ExitAfterAutoApply(r.ok))
           /\ mpc' = "returned"
    /\ UNCHANGED <<gvars, args, env, raw_entries, fixed_file>>

NextMain ==
    \/ ApplyChaptersOnly
    \/ ParseRaw
    \/ CheckEntries
    \/ WriteFixed
    \/ RunGeneration
    \/ AutoApply

SpecMain == InitMain /\ [][NextMain]_vars

(***************************************************************************)
(* Vocabulary of the properties.                                           *)
(***************************************************************************)
Generating == pc \in {"gen", "done"}

\* the direction block d of entry i has been executed
Processed(i, d) == Generating /\ (i < idx \/ (i = idx /\ d < dir))

Pairs == (1..Len(entries)) \X (1..6)

ProcessedPairs == { p \in Pairs : Processed(p[1], p[2]) }

SourceOf(i, d) == Strip(entries[i][SourceField(d)])
TargetOf(i, d) == Strip(entries[i][TargetField(d)])

BothPresent(i, d) == SourceOf(i, d) # EmptyStr /\ TargetOf(i, d) # EmptyStr

\* the pool argument of the target field's type, as passed in
PoolArg(d) ==
    CASE TargetField(d) = KANJI -> kanji_pool
      [] TargetField(d) = KANA -> kana_pool
      [] TargetField(d) = MEANING -> meaning_pool

Elems(s) == { s[j] : j \in 1..Len(s) }

QuestionsOf(i, d) ==
    { k \in 1..Len(questions) :
        questions[k].entry_index = i /\ questions[k].q_type = QType(d) }

Distinct(s) == \A a, b \in 1..Len(s) : a # b => s[a] # s[b]

Occurrences(s, x) == Cardinality({ j \in 1..Len(s) : s[j] = x })

(***************************************************************************)
(* Properties.                                                             *)
(***************************************************************************)

\* C1: in every question, correct_index is a position of options and
\* options[correct_index] is correct_answer, for any entries, any pools and
\* any outcome of the sample and the shuffle.
C1_CorrectIndexLocatesAnswer ==
    \A k \in 1..Len(questions) :
        LET q == questions[k]
        IN  /\ q.correct_index \in 0..(Len(q.options) - 1)
            /\ q.options[q.correct_index + 1] = q.correct_answer

\* a finished call that emitted a question whose correct answer the shuffle
\* moved away from the place where it was appended
C1_Witness ==
    /\ pc = "done"
    /\ \E k \in 1..Len(questions) :
          questions[k].correct_index + 1 < Len(questions[k].options)

\* C2: with the default min_options every question has exactly 4 options,
\* pairwise distinct, the correct answer among them exactly once, whatever
\* the pools hold (repeats, empty strings, whitespace variants).
C2_FourDistinctOptions ==
    min_options = DefaultMinOptions =>
        \A k \in 1..Len(questions) :
            LET q == questions[k]
            IN  /\ Len(q.options) = 4
                /\ Distinct(q.options)
                /\ Occurrences(q.options, q.correct_answer) = 1

\* a question built from a pool with repeated values, one of whose options
\* differs from the correct answer only by surrounding whitespace
C2_Witness ==
    /\ pc = "done"
    /\ min_options = DefaultMinOptions
    /\ \E k \in 1..Len(questions) :
          LET q == questions[k]
          IN  /\ \E o \in Elems(q.options) : o # q.correct_answer /\ Strip(o) = q.correct_answer
              /\ \E d \in 1..6 : QType(d) = q.q_type /\ ~Distinct(PoolArg(d))

\* the target pool of direction d holds at least 3 distinct values other
\* than the correct value of entry i
EnoughOthers(i, d) == Cardinality(Elems(PoolArg(d)) \ {TargetOf(i, d)}) >= 3

\* C3: in the returned list, every direction of every entry with both
\* fields present whose target pool holds at least 3 distinct values other
\* than the correct one has exactly one question.
C3_EmittedWhenEnoughDistractors ==
    pc = "done" =>
        \A p \in Pairs :
            (BothPresent(p[1], p[2]) /\ EnoughOthers(p[1], p[2]))
            => Cardinality(QuestionsOf(p[1], p[2])) = 1

\* a finished run in which some direction had exactly 3 other values and
\* was emitted, while another direction of the same entry was not
C3_Witness ==
    /\ pc = "done"
    /\ \E p \in Pairs :
          /\ BothPresent(p[1], p[2])
          /\ Cardinality(Elems(PoolArg(p[2])) \ {TargetOf(p[1], p[2])}) = 3
          /\ Cardinality(QuestionsOf(p[1], p[2])) = 1
          /\ \E d \in 1..6 : BothPresent(p[1], d) /\ QuestionsOf(p[1], d) = {}

\* the target pool of direction d, without the correct value of entry i,
\* has fewer than 3 members
FewOthers(i, d) ==
    Cardinality({ j \in 1..Len(PoolArg(d)) : PoolArg(d)[j] # TargetOf(i, d) }) < 3

\* the (entry, direction) pairs with both fields present and such a pool
ShortPairs == { p \in Pairs : BothPresent(p[1], p[2]) /\ FewOthers(p[1], p[2]) }

\* the direction block about to run is one of them
ShortBlock ==
    /\ pc = "gen"
    /\ idx <= Len(entries)
    /\ <<idx, dir>> \in ShortPairs

\* C4: executing such a direction adds no question and adds exactly 1 to
\* skipped; the returned list has no question for such a pair and the
\* returned skipped is the number of such pairs.
C4_SkippedCountsShortPairs ==
    /\ [][ShortBlock => (questions' = questions /\ skipped' = skipped + 1)]_vars
    /\ [](pc = "done" =>
            /\ \A p \in ShortPairs : QuestionsOf(p[1], p[2]) = {}
            /\ skipped = Cardinality(ShortPairs))

\* a finished run that skipped some directions and emitted others
C4_Witness ==
    /\ pc = "done"
    /\ skipped > 0
    /\ skipped = Cardinality(ShortPairs)
    /\ Len(questions) > 0

\* the direction block about to run has an empty source or target
SilentBlock ==
    /\ pc = "gen"
    /\ idx <= Len(entries)
    /\ ~BothPresent(idx, dir)

\* C5: a direction whose source or target is empty after trimming adds no
\* question and leaves skipped unchanged.
C5_EmptyFieldIsSilent ==
    [][SilentBlock => (questions' = questions /\ skipped' = skipped)]_vars

\* a finished run over a list holding an entry with one non-empty field:
\* other entries got questions, that entry got none
C5_Witness ==
    /\ pc = "done"
    /\ Len(questions) > 0
    /\ \E i \in 1..Len(entries) :
          /\ Cardinality({ f \in 1..3 : Strip(entries[i][f]) # EmptyStr }) <= 1
          /\ \A d \in 1..6 : QuestionsOf(i, d) = {}

\* C6: min_options is honoured: a direction is skipped exactly when fewer
\* than min_options - 1 candidates exist, and every question has
\* min_options options.
C6_MinOptionsHonoured ==
    /\ \A k \in 1..Len(questions) : Len(questions[k].options) = min_options
    /\ \A p \in ProcessedPairs :
          BothPresent(p[1], p[2]) =>
              ( QuestionsOf(p[1], p[2]) = {}
                <=> Cardinality(Elems(PoolArg(p[2])) \ {TargetOf(p[1], p[2]), EmptyStr})
                        < min_options - 1 )

\* C7: two runs on the same entries with the generator seeded alike return
\* the same questions, in the same order, and the same skipped count.
C7_SeededRunsAgree ==
    (pc = "done" /\ run = 2 /\ seed # None) =>
        prev = Some([questions |-> questions, skipped |-> skipped])

\* a second seeded run that ended with questions
C7_Witness ==
    /\ pc = "done"
    /\ run = 2
    /\ seed # None
    /\ Len(questions) > 0
    /\ skipped > 0

FirstOccurrence(f, v) == CHOOSE k \in 1..Len(entries) :
    entries[k][f] = v /\ \A j \in 1..(k - 1) : entries[j][f] # v

PoolIsFirstOccurrences(pool, f) ==
    /\ Distinct(pool)
    /\ Elems(pool) = { entries[k][f] : k \in 1..Len(entries) } \ {EmptyStr}
    /\ \A a, b \in 1..Len(pool) :
          a < b => FirstOccurrence(f, pool[a]) < FirstOccurrence(f, pool[b])
    /\ Len(pool) <= Len(entries)
    /\ (entries = <<>> => pool = <<>>)

\* C8: when build_pools has returned, each pool holds exactly the distinct non-empty values
\* of its field, each once, in order of first occurrence; it is no longer
\* than entries and empty for empty input.
C8_PoolsAreFirstOccurrences ==
    pc = "call" =>
        /\ PoolIsFirstOccurrences(kanji_pool, KANJI)
        /\ PoolIsFirstOccurrences(kana_pool, KANA)
        /\ PoolIsFirstOccurrences(meaning_pool, MEANING)

\* pools built from a list that repeats a meaning and has an entry without
\* kanji: the pools are shorter than the list
C8_Witness ==
    /\ pc = "call"
    /\ \E i, j \in 1..Len(entries) : i < j /\ entries[i][MEANING] = entries[j][MEANING]
    /\ \E i \in 1..Len(entries) : entries[i][KANJI] = EmptyStr
    /\ Len(kanji_pool) >= 2
    /\ Len(meaning_pool) < Len(entries)

(***************************************************************************)
(* Exit statuses of main.                                                  *)
(***************************************************************************)
Terminated == mpc \in {"exited", "returned"}

FailureStages == {"parse", "empty", "write", "generation"}

\* the stage at which the environment makes a default-mode run fail
FailedAt(stage) ==
    /\ ~args.apply_chapters
    /\ CASE stage = "parse" -> env.raw = None
         [] stage = "empty" -> env.raw # None /\ env.raw[1] = <<>>
         [] stage = "write" -> /\ env.raw # None /\ env.raw[1] # <<>>
                               /\ ~env.fixed_writable
         [] stage = "generation" -> /\ env.raw # None /\ env.raw[1] # <<>>
                                    /\ env.fixed_writable
                                    /\ env.gen_failure # "none"

ExitCodeOf(stage) ==
    CASE stage = "parse" -> ExitParseFailure
      [] stage = "empty" -> ExitEmptyInput
      [] stage = "write" -> ExitWriteFailure
      [] stage = "generation" -> ExitGenerationFailure

\* C9: a run of main that fails at the parse stage, finds no entries, fails
\* writing the fixed file or fails in generation does not stop before it has
\* exited, and exits with the status of that stage; that status is not 0,
\* differs from the status of each other stage and from the status of a
\* failed --apply-chapters run.
C9_StageFailuresExitDistinctNonZero ==
    \A s \in FailureStages :
        FailedAt(s) =>
            /\ ~Terminated => ENABLED NextMain
            /\ Terminated =>
                  /\ mpc = "exited"
                  /\ exit_code = Some(ExitCodeOf(s))
                  /\ ExitCodeOf(s) # ExitSuccess
                  /\ ExitCodeOf(s) # ExitChaptersFailure
                  /\ \A t \in FailureStages \ {s} : ExitCodeOf(t) # ExitCodeOf(s)

\* a run that found no entries has exited with status 1, nothing written
C9_Witness ==
    /\ mpc = "exited"
    /\ FailedAt("empty")
    /\ exit_code = Some(1)
    /\ fixed_file = None
    /\ reported # <<>>

\* a terminated run whose level/chapter application stopped at a fatal format
\* error: the annotated file is missing or its first non-empty line is no
\* level token.  A default-mode run applies only when it has returned.
HitFormatError ==
    /\ Terminated
    /\ args.apply_chapters \/ mpc = "returned"
    /\ ~read_level_from_txt(env.chapters).ok

FormatErrorReported ==
    /\ reported # <<>>
    /\ reported[Len(reported)][2] = read_level_from_txt(env.chapters).err

\* C10 as stated: in every mode a run that hit a fatal format error while
\* applying level/chapter metadata has reported it and ended with a non-zero
\* exit status.
C10_FormatErrorNeverExitsZero ==
    HitFormatError =>
        /\ FormatErrorReported
        /\ exit_code # None
        /\ exit_code[1] # ExitSuccess

\* C10: a run that hit a fatal format error while applying level/chapter
\* metadata has reported it; in --apply-chapters mode it exited with status
\* 5, in the default mode (the application after generation) the message is
\* "Skip auto level/chapter apply" and the run returned with status 0.
C10_FormatErrorAbortsOnlyApplyMode ==
    HitFormatError =>
        /\ FormatErrorReported
        /\ args.apply_chapters =>
              /\ mpc = "exited"
              /\ exit_code = Some(ExitChaptersFailure)
              /\ ExitChaptersFailure # ExitSuccess
              /\ reported[Len(reported)][1] = "Applying chapters failed"
        /\ ~args.apply_chapters =>
              /\ mpc = "returned"
              /\ exit_code = Some(ExitSuccess)
              /\ reported[Len(reported)][1] = "Skip auto level/chapter apply"

\* a default-mode run generated questions, then found no level header in the
\* annotated file, and returned
C10_Witness ==
    /\ ~args.apply_chapters
    /\ mpc = "returned"
    /\ env.chapters # None
    /\ read_level_from_txt(env.chapters).err = "ValueError"
    /\ db.questions # <<>>
    /\ exit_code = Some(0)

(***************************************************************************)
(* Persistence of one run: run_generation as main calls it.                *)
(***************************************************************************)
\* the store as the run opens it: create_db applied to the file found
OpenedDb == create_db(db, args.force)

\* the generator state when run_generation starts drawing
RunRng == IF args.seed # None THEN SeedRng(args.seed[1], rng) ELSE rng

\* the questions the run generates from the fixed file it wrote
RunQuestions ==
    LET fixed == fixed_file[1]
        pools == build_pools(fixed)
    IN  generate_all_questions(fixed, pools[1], pools[2], pools[3], RunRng).questions

\* the rows of a table of d that the run added: their ids lie beyond the
\* sequence of the store it opened
AddedRows(rows, seq) == SelectSeq(rows, LAMBDA r : r.id > seq)

\* C11: when run_generation ends, normally or by a failure, the database
\* holds either the entries of the run together with its questions, or
\* neither: it never holds the run's entries without its questions.
C11_EntriesNeverWithoutQuestions ==
    [][ RunGeneration =>
          LET es == AddedRows(db'.entries, OpenedDb.entry_seq)
              qs == AddedRows(db'.questions, OpenedDb.question_seq)
          IN  \/ es = <<>> /\ qs = <<>>
              \/ /\ Len(es) = Len(fixed_file[1])
                 /\ [k \in 1..Len(qs) |-> qs[k].q] = RunQuestions ]_vars

\* C12: after insert_entries followed by insert_questions, the entry_id of
\* every question row the run added is the id of the row the same run added
\* for entries[entry_index]; that row's list_index is the question's
\* entry_index and it holds that entry.  Ids continue the sequence of the
\* store, so they differ from positions when rows were there before.
C12_QuestionRowsReferenceTheirEntry ==
    [][ (RunGeneration /\ mpc' = "auto_apply") =>
          LET es == AddedRows(db'.entries, OpenedDb.entry_seq)
              qs == AddedRows(db'.questions, OpenedDb.question_seq)
          IN  /\ Len(es) = Len(fixed_file[1])
              /\ \A k \in 1..Len(qs) :
                    LET i == qs[k].q.entry_index
                    IN  /\ i \in 1..Len(es)
                        /\ qs[k].entry_id = Some(es[i].id)
                        /\ es[i].list_index = i
                        /\ es[i].entry = fixed_file[1][i]
                        /\ \A j \in 1..Len(db'.entries) :
                              db'.entries[j].id = es[i].id => db'.entries[j] = es[i] ]_vars

\* a run without --force added questions to a store that held rows: a
\* question for the first entry references a row whose id is not 1
C12_Witness ==
    /\ mpc = "auto_apply"
    /\ ~args.force
    /\ \E k \in 1..Len(db.questions) :
          /\ db.questions[k].q.entry_index = 1
          /\ db.questions[k].entry_id # None
          /\ db.questions[k].entry_id[1] > 1

\* a step of main in which run_generation reaches create_db and it returns
CreateDbStep ==
    /\ RunGeneration
    /\ env.gen_failure \notin {"import", "create_db"}

IsPrefix(s, t) == Len(s) <= Len(t) /\ SubSeq(t, 1, Len(s)) = s

\* C13: create_db keeps the rows of the store it finds exactly when force is
\* false.  Without force every entries and questions row is there unchanged
\* after the call and after the inserts that follow, and calling create_db
\* again changes nothing; with force the opened store has no rows and the
\* row ids start again, so no row that existed before remains.
C13_CreateDbKeepsRowsUnlessForced ==
    [][ CreateDbStep =>
          IF ~args.force
          THEN /\ OpenedDb.entries = db.entries
               /\ OpenedDb.questions = db.questions
               /\ create_db(OpenedDb, FALSE) = OpenedDb
               /\ IsPrefix(db.entries, db'.entries)
               /\ IsPrefix(db.questions, db'.questions)
          ELSE /\ OpenedDb.entries = <<>>
               /\ OpenedDb.questions = <<>>
               /\ create_db(OpenedDb, TRUE).entries = <<>>
               /\ Len(db'.entries) = Len(fixed_file[1])
               /\ \A j \in 1..Len(db'.entries) : db'.entries[j].id = j ]_vars

\* a run without --force on a store that held rows: the rows are still
\* there, before the rows of the run
C13_Witness ==
    /\ mpc = "auto_apply"
    /\ ~args.force
    /\ Len(db.entries) > Len(fixed_file[1])
    /\ Len(db.questions) > 0
    /\ db.entries[1].id = 1
    /\ db.entries[Len(db.entries)].list_index = Len(fixed_file[1])

(***************************************************************************)
(* Level and chapter metadata.                                             *)
(***************************************************************************)
\* a terminated run that applied level/chapter metadata to a store with
\* tables, from a file that is there
AppliedFromFile ==
    /\ Terminated
    /\ args.apply_chapters \/ mpc = "returned"
    /\ env.chapters # None
    /\ db.tables

\* the chapter the annotated file gives to number n, if any
FileChapters == parse_chapters_from_fixed(env.chapters[1])

\* C14: the level line is optional: applying level/chapter metadata from a
\* file whose first non-empty line is not one of the five level tokens
\* succeeds and assigns the chapters of the file to the entries.
C14_LevelLineIsOptional ==
    (AppliedFromFile /\ ~read_level_from_txt(env.chapters).ok) =>
        /\ exit_code = Some(ExitSuccess)
        /\ \A j \in 1..Len(db.entries) :
              db.entries[j].id \in DOMAIN FileChapters =>
                  db.entries[j].chapter = Some(FileChapters[db.entries[j].id])

\* a terminated run whose level/chapter application went through, from a
\* file with brace blocks
ChaptersApplied ==
    /\ AppliedFromFile
    /\ read_level_from_txt(env.chapters).ok
    /\ brace_blocks(env.chapters[1], 1) # <<>>

\* C15: after generation runs followed by the level/chapter application,
\* every entries row whose entry number (its 1-based list_index) appears in
\* the k-th brace block of the annotated file has chapter k, and every
\* questions row has the chapter of the entry it references.
C15_ChapterByEntryNumber ==
    ChaptersApplied =>
        /\ \A j \in 1..Len(db.entries) :
              db.entries[j].list_index \in DOMAIN FileChapters =>
                  db.entries[j].chapter = Some(FileChapters[db.entries[j].list_index])
        /\ \A k \in 1..Len(db.questions) :
              db.questions[k].chapter = chapter_of_entry(db.entries, db.questions[k].entry_id)

(***************************************************************************)
(* The returned question sequence.                                         *)
(***************************************************************************)
\* the direction order the questions of one entry are to follow
DirectionOrder ==
    << "kanji_to_hiragana", "kanji_to_meaning", "kana_to_meaning",
       "kana_to_kanji", "meaning_to_kanji", "meaning_to_kana" >>

RankOf(q_type) == CHOOSE r \in 1..Len(DirectionOrder) : DirectionOrder[r] = q_type

\* question a comes before question b: an earlier entry, or the same entry
\* and an earlier direction
Before(a, b) ==
    \/ a.entry_index < b.entry_index
    \/ a.entry_index = b.entry_index /\ RankOf(a.q_type) < RankOf(b.q_type)

\* C16: the returned questions are ordered by entry position and, within an
\* entry, by the fixed direction order; so each (entry_index, q_type) pair
\* occurs at most once and an entry yields at most six questions.
C16_QuestionsInEntryAndDirectionOrder ==
    pc = "done" =>
        /\ \A k \in 1..Len(questions) : questions[k].q_type \in Elems(DirectionOrder)
        /\ \A k \in 1..(Len(questions) - 1) : Before(questions[k], questions[k + 1])
        /\ \A p \in Pairs : Cardinality(QuestionsOf(p[1], p[2])) <= 1
        /\ \A i \in 1..Len(entries) :
              Cardinality({ k \in 1..Len(questions) : questions[k].entry_index = i }) <= 6

\* a finished call in which an entry and a later entry yielded all six
\* questions each
C16_Witness ==
    /\ pc = "done"
    /\ \E i, j \in 1..Len(entries) :
          /\ i < j
          /\ Cardinality({ k \in 1..Len(questions) : questions[k].entry_index = i }) = 6
          /\ Cardinality({ k \in 1..Len(questions) : questions[k].entry_index = j }) = 6

\* the field a tag names before "_to_" and the field it names after it
SourceOfTag(t) ==
    CASE t \in {"kanji_to_hiragana", "kanji_to_meaning"} -> KANJI
      [] t \in {"kana_to_meaning", "kana_to_kanji"} -> KANA
      [] t \in {"meaning_to_kanji", "meaning_to_kana"} -> MEANING

TargetOfTag(t) ==
    CASE t \in {"kana_to_kanji", "meaning_to_kanji"} -> KANJI
      [] t \in {"kanji_to_hiragana", "meaning_to_kana"} -> KANA
      [] t \in {"kanji_to_meaning", "kana_to_meaning"} -> MEANING

\* C17: for every emitted question, entry_index is a 1-based position of
\* entries, prompt is the trimmed source field and correct_answer the
\* trimmed target field of that entry, the fields being those the q_type
\* tag names.
C17_PromptAndAnswerAreEntryFields ==
    \A k \in 1..Len(questions) :
        LET q == questions[k]
        IN  /\ q.entry_index \in 1..Len(entries)
            /\ q.q_type \in Elems(DirectionOrder)
            /\ q.prompt = Strip(entries[q.entry_index][SourceOfTag(q.q_type)])
            /\ q.correct_answer = Strip(entries[q.entry_index][TargetOfTag(q.q_type)])
            /\ q.prompt # EmptyStr
            /\ q.correct_answer # EmptyStr

\* a finished call that emitted a question of each tag for an entry whose
\* fields carry surrounding whitespace
C17_Witness ==
    /\ pc = "done"
    /\ \E i \in 1..Len(entries) :
          /\ Strip(entries[i][KANJI]) # entries[i][KANJI]
          /\ Strip(entries[i][MEANING]) # entries[i][MEANING]
          /\ \A t \in Elems(DirectionOrder) :
                \E k \in 1..Len(questions) :
                    questions[k].entry_index = i /\ questions[k].q_type = t

\* the pool argument of a field type, as passed in
PoolOfType(f) ==
    CASE f = KANJI -> kanji_pool
      [] f = KANA -> kana_pool
      [] f = MEANING -> meaning_pool

\* the options of a question other than the one at correct_index
Distractors(q) ==
    { q.options[j] : j \in { n \in 1..Len(q.options) : n # q.correct_index + 1 } }

\* C18: in every emitted question the options other than the correct answer
\* are 3 values of the pool of the target field's type, each different from
\* the correct answer; none is a value of the pool of the source field's
\* type or of the third pool.
C18_DistractorsComeFromTargetPool ==
    \A k \in 1..Len(questions) :
        LET q == questions[k]
            tgt == TargetOfTag(q.q_type)
        IN  /\ Cardinality(Distractors(q)) = 3
            /\ \A o \in Distractors(q) :
                  /\ o \in Elems(PoolOfType(tgt))
                  /\ o # q.correct_answer
                  /\ \A f \in {KANJI, KANA, MEANING} \ {tgt} : o \notin Elems(PoolOfType(f))

\* a finished call that emitted a question of each tag, the pools holding
\* repeated values and the empty string
C18_Witness ==
    /\ pc = "done"
    /\ \A f \in {KANJI, KANA, MEANING} :
          /\ ~Distinct(PoolOfType(f))
          /\ EmptyStr \in Elems(PoolOfType(f))
    /\ \A t \in Elems(DirectionOrder) :
          \E k \in 1..Len(questions) : questions[k].q_type = t

(***************************************************************************)
(* The fixed file as text: main parses the raw file, writes the fixed file *)
(* and run_generation reads it back with parse_fixed_file.  Here env.raw   *)
(* and fixed_file hold the lines of the files, character by character.     *)
(***************************************************************************)
\* lines of a raw file: three fields, a meaning with a comma, a dropped
\* 'nan' before a kana field, a dropped 'nan' after a kanji field with a
\* comma in the last field, a header, a single kana field with blanks and a
\* trailing comma, two 'nan' tokens, two fields with trailing commas
RawLineChoices ==
    { <<"K", ",", SP, "a", ",", SP, "x">>,
      <<"K", ",", SP, "a", ",", SP, "x", ",", SP, "y">>,
      <<"n", "a", "n", ",", SP, "a", ",", SP, "x", ",", SP, "y">>,
      <<"K", ",", SP, "n", "a", "n", ",", SP, "x", ",", SP, "y">>,
      <<"h", "e", "a", "d">>,
      <<SP, "a", SP, ",">>,
      <<"N", "a", "N", ",", "n", "a", "n", ",", SP, "x">>,
      <<"K", ",", SP, "x", ",", ",">> }

RawTexts == SeqsUpTo(RawLineChoices, MaxRawLines)

InitFixedFile ==
    /\ entries = <<>>
    /\ kanji_pool = <<>>
    /\ kana_pool = <<>>
    /\ meaning_pool = <<>>
    /\ min_options = DefaultMinOptions
    /\ seed = None
    /\ rng \in AmbientRng
    /\ pc = "idle"
    /\ idx = 1
    /\ dir = 1
    /\ questions = <<>>
    /\ skipped = 0
    /\ run = 1
    /\ prev = None
    /\ args = [apply_chapters |-> FALSE, force |-> FALSE, seed |-> None]
    /\ env \in [raw : { Some(t) : t \in RawTexts }, fixed_writable : {TRUE},
                gen_failure : {"none"}, chapters : {None}]
    /\ mpc = "start"
    /\ raw_entries = <<>>
    /\ fixed_file = None
    /\ exit_code = None
    /\ reported = <<>>
    /\ db = NoDb

\* entries = parse_raw_file(args.input); an empty list exits with status 1
ParseRawText ==
    /\ mpc = "start"
    /\ raw_entries' = parse_raw_text(env.raw[1])
    /\ IF raw_entries' = <<>>
          THEN mpc' = "exited" /\ exit_code' = Some(ExitEmptyInput)
          ELSE mpc' = "write" /\ exit_code' = exit_code
    /\ UNCHANGED <<gvars, args, env, fixed_file, reported, db>>

\* write_fixed_file(entries, args.fixed)
WriteFixedText ==
    /\ mpc = "write"
    /\ fixed_file' = Some(write_fixed_text(raw_entries))
    /\ mpc' = "generate"
    /\ UNCHANGED <<gvars, args, env, raw_entries, exit_code, reported, db>>

\* entries = cke.parse_fixed_file(fixed_path), the first step of run_generation
ParseFixedText ==
    /\ mpc = "generate"
    /\ entries' = parse_fixed_text(fixed_file[1])
    /\ mpc' = "parsed"
    /\ UNCHANGED <<kanji_pool, kana_pool, meaning_pool, min_options, seed, rng, pc,
                   idx, dir, questions, skipped, run, prev, args, env, raw_entries,
                   fixed_file, exit_code, reported, db>>

NextFixedFile ==
    \/ ParseRawText
    \/ WriteFixedText
    \/ ParseFixedText

SpecFixedFile == InitFixedFile /\ [][NextFixedFile]_vars

\* C19: round trip of the fixed file: for every entry list parse_raw_file
\* produces, parse_fixed_file applied to what write_fixed_file wrote returns
\* the same list of triples, in the same order.
C19_FixedFileRoundTrip ==
    mpc = "parsed" => entries = raw_entries

(***************************************************************************)
(* The database is touched last.                                           *)
(***************************************************************************)
\* the steps of a default-mode run that come before create_db: parsing, the
\* empty check, writing the fixed file, and a run_generation that raises
\* before the questions are generated
BeforePersistence ==
    /\ ~args.apply_chapters
    /\ \/ mpc \in {"start", "check", "write"}
       \/ mpc = "generate" /\ env.gen_failure = "import"

\* C20: the database is touched last: no step of a default-mode run before
\* create_db changes the database, with or without --force; so a run that
\* exits with status 1, 2 or 3, or whose run_generation fails before the
\* questions are generated, ends with the database it found, and the
\* database only changes in a run_generation step that has generated the
\* questions or in the chapter apply after it.
C20_DatabaseTouchedLast ==
    [][ /\ BeforePersistence => db' = db
        /\ (~args.apply_chapters /\ db' # db) =>
              \/ mpc = "generate" /\ env.gen_failure # "import"
              \/ mpc = "auto_apply"
        /\ (exit_code' \in {Some(ExitEmptyInput), Some(ExitParseFailure),
                            Some(ExitWriteFailure)} /\ exit_code = None)
              => (BeforePersistence /\ db' = db) ]_vars

\* a forced run on a populated database has failed before generation
C20_Witness ==
    /\ mpc = "exited"
    /\ ~args.apply_chapters
    /\ args.force
    /\ exit_code = Some(ExitGenerationFailure)
    /\ env.gen_failure = "import"
    /\ fixed_file # None
    /\ Len(db.entries) > 0
    /\ Len(db.questions) > 0

====
